---- MODULE Spec2Model ----
(* A model of flexget/plugins/filter/movie_queue.py: the movie_queue table   *)
(* (QueuedMovie rows) and the operations queue_add, queue_del, queue_forget, *)
(* queue_edit, queue_get, MovieQueue.matches, the loop of                   *)
(* MovieQueue.on_task_output, the pages of MovieQueueListAPI.get and the     *)
(* satisfy step of the queue base.                                           *)
EXTENDS Integers, Sequences, FiniteSets, TLC

\* ---------------------------------------------------------------- domains
NULL == "NULL"
MISSING == "MISSING"

\* Largest id the store ever assigns (number of successful adds).
MaxId == 2
\* Longest listing, largest page number and largest page size asked of get.
MaxCount == 6
MaxPage == 5
MaxSize == 3
\* Most accepted entries in one task.
MaxBatch == 2

Titles == {"T1", "T2"}
ImdbIds == {"tt1"}
TmdbIds == {"m1"}
OptTitle == Titles \cup {NULL}
OptImdb == ImdbIds \cup {NULL}
OptTmdb == TmdbIds \cup {NULL}

\* Requirement strings stored in the quality column, and observed qualities.
Reqs == {"any", "720p+"}
\* A string that is no requirement spec, as a caller of queue_edit may pass it.
Malformed == "bad"
\* The quality argument of queue_add: None (replaced by 'any') or a requirement.
AddQualities == {NULL, "720p+"}
Qualities == {"unknown", "480p", "720p", "1080p"}

\* Provenance of the candidate that satisfies an entry.
ProvTitle == "rel"
ProvUrl == "url"
ProvOrigUrl == "ourl"
Stamp == "t"

VARIABLES store, nextId, last, sess, listing, batch

vars == <<store, nextId, last, sess, listing, batch>>

\* ---------------------------------------------------------------- rows
QueuedMovieDownloaded(id, title, imdb_id, tmdb_id, quality) ==
    [id |-> id, title |-> title, imdb_id |-> imdb_id, tmdb_id |-> tmdb_id,
     quality |-> quality, downloaded |-> "t", entry_title |-> NULL,
     entry_url |-> NULL, entry_original_url |-> NULL]

\* QueuedMovie(title, imdb_id, tmdb_id, quality): a fresh row is not downloaded
\* and carries no provenance.
QueuedMovie(id, title, imdb_id, tmdb_id, quality) ==
    [id |-> id, title |-> title, imdb_id |-> imdb_id, tmdb_id |-> tmdb_id,
     quality |-> quality, downloaded |-> NULL, entry_title |-> NULL,
     entry_url |-> NULL, entry_original_url |-> NULL]

Rows(s) == {s[i] : i \in 1..Len(s)}

RECURSIVE Without(_, _)
\* session.delete(item): the sequence of rows without the row of that id.
Without(s, id) ==
    IF s = <<>> THEN <<>>
    ELSE IF Head(s).id = id THEN Without(Tail(s), id)
    ELSE <<Head(s)>> \o Without(Tail(s), id)

\* The rows of s with the row of item.id replaced by item.
Replace(s, item) == [i \in 1..Len(s) |-> IF s[i].id = item.id THEN item ELSE s[i]]

\* The result of Query.first(): None when nothing matches, else one of the
\* matching rows (the query has no ORDER BY).
NoItem == [id |-> 0]
First(matching) == IF matching = {} THEN {NoItem} ELSE matching

\* ---------------------------------------------------------------- history
Idle == [op |-> "init", title |-> NULL, imdb_id |-> NULL, tmdb_id |-> NULL,
         lz_imdb |-> NULL, lz_tmdb |-> NULL, quality |-> NULL, result |-> NULL,
         ret_title |-> NULL, ret_imdb |-> NULL, ret_tmdb |-> NULL, id |-> 0,
         lookup |-> FALSE, errno |-> 0, downloaded |-> FALSE, ret |-> <<>>]

\* ---------------------------------------------------------------- resolver
\* extract_id(what): the imdb id a string encodes, None otherwise.
extract_id(what) == IF what \in ImdbIds THEN what ELSE NULL

\* The strings "tmdb_id=<id>".
TmdbWhat == [t \in TmdbIds |-> "tmdb_id=m1"]
StartsWithTmdb(what) == \E t \in TmdbIds : TmdbWhat[t] = what
StripTmdb(what) == CHOOSE t \in TmdbIds : TmdbWhat[t] = what

\* What the lazy lookup may leave on a search entry: movie_name populated or
\* missing; an id the search entry already carries stays; when movie_name is
\* populated at least one id is there.
LookupOutcomes(se) ==
    {o \in [movie_name : Titles \cup {MISSING}, imdb_id : OptImdb, tmdb_id : OptTmdb] :
        /\ se.imdb_id # NULL => o.imdb_id = se.imdb_id
        /\ se.tmdb_id # NULL => o.tmdb_id = se.tmdb_id
        /\ o.movie_name # MISSING => (o.imdb_id # NULL \/ o.tmdb_id # NULL)
        /\ o.movie_name = MISSING => (o.imdb_id = se.imdb_id /\ o.tmdb_id = se.tmdb_id)}

\* The search entry parse_what builds from `what`.
SearchEntry(what) ==
    LET imdb == extract_id(what)
        tmdb == IF imdb = NULL /\ StartsWithTmdb(what) THEN StripTmdb(what) ELSE NULL
        title == IF imdb = NULL /\ ~StartsWithTmdb(what) THEN what ELSE NULL
    IN [title |-> title, imdb_id |-> imdb, tmdb_id |-> tmdb]

parse_whatNoKeyError(what, lk) ==
    IF what = NULL THEN [err |-> "AttributeError", title |-> NULL, imdb_id |-> NULL, tmdb_id |-> NULL]
    ELSE [err |-> NULL,
          title |-> IF lk.movie_name = MISSING THEN NULL ELSE lk.movie_name,
          imdb_id |-> IF lk.movie_name = MISSING THEN NULL ELSE lk.imdb_id,
          tmdb_id |-> IF lk.movie_name = MISSING THEN NULL ELSE lk.tmdb_id]

\* parse_what(what, lookup=True): lk is what the lookup left on the search
\* entry.  what = None ends in AttributeError (what.startswith); a missing
\* movie_name ends in QueueError.
parse_what(what, lk) ==
    IF what = NULL THEN [err |-> "AttributeError", title |-> NULL, imdb_id |-> NULL, tmdb_id |-> NULL]
    ELSE IF lk.movie_name = MISSING
    THEN [err |-> "LookupIncomplete", title |-> NULL, imdb_id |-> NULL, tmdb_id |-> NULL]
    ELSE [err |-> NULL, title |-> lk.movie_name, imdb_id |-> lk.imdb_id, tmdb_id |-> lk.tmdb_id]

\* queue_add's test for an incomplete identity.
NeedsLookup(title, imdb_id, tmdb_id) ==
    title = NULL \/ (imdb_id = NULL /\ tmdb_id = NULL)

\* imdb_id or title
AddWhat(title, imdb_id, tmdb_id) == IF imdb_id # NULL THEN imdb_id ELSE title

\* The lookups an add may see.
AddLookups(title, imdb_id, tmdb_id) ==
    IF NeedsLookup(title, imdb_id, tmdb_id) /\ AddWhat(title, imdb_id, tmdb_id) # NULL
    THEN LookupOutcomes(SearchEntry(AddWhat(title, imdb_id, tmdb_id)))
    ELSE {[movie_name |-> MISSING, imdb_id |-> NULL, tmdb_id |-> NULL]}

\* The identity queue_add goes on with.
Resolve(title, imdb_id, tmdb_id, lk) ==
    IF NeedsLookup(title, imdb_id, tmdb_id)
    THEN parse_what(AddWhat(title, imdb_id, tmdb_id), lk)
    ELSE [err |-> NULL, title |-> title, imdb_id |-> imdb_id, tmdb_id |-> tmdb_id]

AddConflictsImdbOnly(s, imdb_id, tmdb_id) ==
    {r \in Rows(s) : r.imdb_id # NULL /\ r.imdb_id = imdb_id}

AddConflictsWantedOnly(s, imdb_id, tmdb_id) ==
    {r \in Rows(s) : r.downloaded = NULL /\
                     ((r.imdb_id # NULL /\ r.imdb_id = imdb_id) \/
                      (r.tmdb_id # NULL /\ r.tmdb_id = tmdb_id))}

\* The rows queue_add's "already queued" query matches.
AddConflicts(s, imdb_id, tmdb_id) ==
    {r \in Rows(s) : (r.imdb_id # NULL /\ r.imdb_id = imdb_id) \/
                     (r.tmdb_id # NULL /\ r.tmdb_id = tmdb_id)}

AddConflictErrorSameMessage(item) == [message |-> "AlreadyQueued", errno |-> 1]

\* The QueueError queue_add raises on the row its query returned: "has already
\* been queued and downloaded" or "is already in the queue", errno 1 in both.
AddConflictError(item) ==
    [message |-> IF item.downloaded # NULL THEN "AlreadyDownloaded" ELSE "AlreadyQueued",
     errno |-> 1]

AddStoreBeforeCheck(s, id, r, q, item) ==
    Append(s, QueuedMovie(id, r.title, r.imdb_id, r.tmdb_id, q))

\* The rows after queue_add: session.add(item) is reached only when the query
\* returned no row.
AddStore(s, id, r, q, item) ==
    IF item = NoItem
    THEN Append(s, QueuedMovie(id, r.title, r.imdb_id, r.tmdb_id, q))
    ELSE s

\* ---------------------------------------------------------------- queue_add
queue_add(title, imdb_id, tmdb_id, quality, lk) ==
      LET q == IF quality = NULL THEN "any" ELSE quality
          r == Resolve(title, imdb_id, tmdb_id, lk)
          call == [Idle EXCEPT !.op = "add", !.title = title, !.imdb_id = imdb_id,
                               !.tmdb_id = tmdb_id,
                               !.lookup = NeedsLookup(title, imdb_id, tmdb_id)]
      IN IF r.err # NULL
         THEN /\ last' = [call EXCEPT !.result = r.err]
              /\ UNCHANGED <<store, nextId, sess>>
         ELSE \E item \in First(AddConflicts(store, r.imdb_id, r.tmdb_id)) :
              IF item = NoItem
              THEN /\ nextId <= MaxId
                   /\ store' = AddStore(store, nextId, r, q, item)
                   /\ nextId' = nextId + 1
                   /\ last' = [call EXCEPT !.result = "ok", !.ret_title = r.title,
                                           !.ret_imdb = r.imdb_id, !.ret_tmdb = r.tmdb_id,
                                           !.id = nextId]
                   /\ UNCHANGED sess
              ELSE /\ store' = AddStore(store, nextId, r, q, item)
                   /\ last' = [call EXCEPT !.result = AddConflictError(item).message,
                                           !.errno = AddConflictError(item).errno,
                                           !.id = item.id]
                   /\ UNCHANGED <<nextId, sess>>

\* queue_add called with any arguments, the lookup answering as it may.
Add ==
    \E title \in OptTitle, imdb_id \in OptImdb, tmdb_id \in OptTmdb, quality \in AddQualities :
    \E lk \in AddLookups(title, imdb_id, tmdb_id) :
      queue_add(title, imdb_id, tmdb_id, quality, lk)

\* ---------------------------------------------------------------- selectors
SelectRowsTitleFirst(s, title, imdb_id, tmdb_id) ==
    IF title # NULL THEN {r \in Rows(s) : r.title = title}
    ELSE IF imdb_id # NULL THEN {r \in Rows(s) : r.imdb_id = imdb_id}
    ELSE IF tmdb_id # NULL THEN {r \in Rows(s) : r.tmdb_id = tmdb_id}
    ELSE Rows(s)

\* The filter queue_del and queue_forget put on the query: the first of
\* imdb_id, tmdb_id, title that is given, and no filter when none is.
SelectRows(s, title, imdb_id, tmdb_id) ==
    IF imdb_id # NULL THEN {r \in Rows(s) : r.imdb_id = imdb_id}
    ELSE IF tmdb_id # NULL THEN {r \in Rows(s) : r.tmdb_id = tmdb_id}
    ELSE IF title # NULL THEN {r \in Rows(s) : r.title = title}
    ELSE Rows(s)

\* ---------------------------------------------------------------- queue_del
DeleteItemByTitle(s, item) == SelectSeq(s, LAMBDA r : r.title # item.title)

\* session.delete(item)
DeleteItem(s, item) == Without(s, item.id)

queue_del(title, imdb_id, tmdb_id) ==
      LET found == SelectRows(store, title, imdb_id, tmdb_id)
          call == [Idle EXCEPT !.op = "del", !.title = title, !.imdb_id = imdb_id,
                               !.tmdb_id = tmdb_id]
      IN IF found = {}
         THEN /\ last' = [call EXCEPT !.result = "NotFound"]
              /\ UNCHANGED <<store, nextId, sess>>
         ELSE IF Cardinality(found) > 1
         THEN /\ last' = [call EXCEPT !.result = "AmbiguousSelector"]
              /\ UNCHANGED <<store, nextId, sess>>
         ELSE \E item \in found :
              /\ store' = DeleteItem(store, item)
              /\ last' = [call EXCEPT !.result = "ok", !.ret_title = item.title, !.id = item.id]
              /\ UNCHANGED <<nextId, sess>>

Del ==
    \E title \in OptTitle, imdb_id \in OptImdb, tmdb_id \in OptTmdb :
      queue_del(title, imdb_id, tmdb_id)

\* ---------------------------------------------------------------- queue_forget
\* item.downloaded = None
ForgetItem(item) == [item EXCEPT !.downloaded = NULL]

queue_forget(title, imdb_id, tmdb_id) ==
      LET found == SelectRows(store, title, imdb_id, tmdb_id)
          call == [Idle EXCEPT !.op = "forget", !.title = title, !.imdb_id = imdb_id,
                               !.tmdb_id = tmdb_id]
      IN IF found = {}
         THEN /\ last' = [call EXCEPT !.result = "NotFound"]
              /\ UNCHANGED <<store, nextId, sess>>
         ELSE IF Cardinality(found) > 1
         THEN /\ last' = [call EXCEPT !.result = "MultipleResultsFound"]
              /\ UNCHANGED <<store, nextId, sess>>
         ELSE \E item \in found :
              IF item.downloaded = NULL
              THEN /\ last' = [call EXCEPT !.result = "NotDownloaded", !.id = item.id]
                   /\ UNCHANGED <<store, nextId, sess>>
              ELSE /\ store' = Replace(store, ForgetItem(item))
                   /\ last' = [call EXCEPT !.result = "ok", !.ret_title = item.title,
                                           !.id = item.id]
                   /\ UNCHANGED <<nextId, sess>>

Forget ==
    \E title \in OptTitle, imdb_id \in OptImdb, tmdb_id \in OptTmdb :
      queue_forget(title, imdb_id, tmdb_id)

\* ---------------------------------------------------------------- queue_edit
\* The filter of queue_edit: imdb_id alone (imdb_id = None compares IS NULL).
EditRows(s, imdb_id, tmdb_id) == {r \in Rows(s) : r.imdb_id = imdb_id}

queue_edit(quality, imdb_id, tmdb_id) ==
      LET found == EditRows(store, imdb_id, tmdb_id)
          call == [Idle EXCEPT !.op = "edit", !.imdb_id = imdb_id, !.tmdb_id = tmdb_id,
                               !.quality = quality]
      IN IF found = {}
         THEN /\ last' = [call EXCEPT !.result = "NotFound"]
              /\ UNCHANGED <<store, nextId, sess>>
         ELSE IF Cardinality(found) > 1
         THEN /\ last' = [call EXCEPT !.result = "MultipleResultsFound"]
              /\ UNCHANGED <<store, nextId, sess>>
         ELSE \E item \in found :
              /\ store' = Replace(store, [item EXCEPT !.quality = quality])
              /\ last' = [call EXCEPT !.result = "ok", !.ret_title = item.title,
                                      !.id = item.id]
              /\ UNCHANGED <<nextId, sess>>

\* queue_edit called with a well-formed requirement string.
Edit ==
    \E quality \in Reqs, imdb_id \in OptImdb, tmdb_id \in OptTmdb :
      queue_edit(quality, imdb_id, tmdb_id)

\* queue_edit called with a string that is no requirement spec.
EditMalformed ==
    \E imdb_id \in OptImdb, tmdb_id \in OptTmdb : queue_edit(Malformed, imdb_id, tmdb_id)

\* ---------------------------------------------------------------- queue_get
\* The orders in which a query without ORDER BY may return the rows of a set.
Orders(rows) ==
    {f \in [1..Cardinality(rows) -> rows] :
        \A i, j \in 1..Cardinality(rows) : i # j => f[i] # f[j]}

\* queue_get: the rows with downloaded unset, or those with downloaded set, as
\* all() returns them.
queue_get(s, downloaded) ==
    Orders({r \in Rows(s) : IF downloaded THEN r.downloaded # NULL ELSE r.downloaded = NULL})

List ==
    \E downloaded \in BOOLEAN :
    \E movie_queue \in queue_get(store, downloaded) :
      /\ last' = [Idle EXCEPT !.op = "list", !.downloaded = downloaded, !.result = "ok",
                              !.ret = movie_queue]
      /\ UNCHANGED <<store, nextId, sess>>

\* ---------------------------------------------------------------- satisfy
\* The accept decision committed on a wanted entry: downloaded is set and the
\* candidate's provenance recorded.
Satisfy ==
    \E item \in Rows(store) :
      /\ item.downloaded = NULL
      /\ store' = Replace(store, [item EXCEPT !.downloaded = Stamp,
                                              !.entry_title = ProvTitle,
                                              !.entry_url = ProvUrl,
                                              !.entry_original_url = ProvOrigUrl])
      /\ last' = [Idle EXCEPT !.op = "satisfy", !.result = "ok", !.id = item.id]
      /\ UNCHANGED <<nextId, sess>>

\* ---------------------------------------------------------------- matches
Rank == [q \in Qualities |->
          IF q = "unknown" THEN 0 ELSE IF q = "480p" THEN 1 ELSE IF q = "720p" THEN 2 ELSE 3]

\* Requirements(req).allows(quality)
Allows(req, q) == IF req = "any" THEN TRUE ELSE Rank[q] >= Rank["720p"]

\* entry.get('quality', qualities.Quality())
CandQuality(quality) == IF quality = NULL THEN "unknown" ELSE quality

MatchIdsNoLookup(imdb_id, tmdb_id, lz_imdb, lz_tmdb) ==
    [imdb_id |-> imdb_id, tmdb_id |-> tmdb_id, lazy |-> FALSE]

\* The ids matches() builds its conditions from: the attached ones when there
\* is one, else the lazily looked up imdb_id, else the lazily looked up tmdb_id.
MatchIds(imdb_id, tmdb_id, lz_imdb, lz_tmdb) ==
    IF imdb_id # NULL \/ tmdb_id # NULL
    THEN [imdb_id |-> imdb_id, tmdb_id |-> tmdb_id, lazy |-> FALSE]
    ELSE IF lz_imdb # NULL
    THEN [imdb_id |-> lz_imdb, tmdb_id |-> NULL, lazy |-> TRUE]
    ELSE [imdb_id |-> NULL, tmdb_id |-> lz_tmdb, lazy |-> TRUE]

MatchRowsAnyState(s, ids) ==
    {r \in Rows(s) : (ids.imdb_id # NULL /\ r.imdb_id = ids.imdb_id) \/
                     (ids.tmdb_id # NULL /\ r.tmdb_id = ids.tmdb_id)}

\* The rows the query of matches() selects: not downloaded, and one of the
\* conditions holds.
MatchRows(s, ids) ==
    {r \in Rows(s) : r.downloaded = NULL /\
                     ((ids.imdb_id # NULL /\ r.imdb_id = ids.imdb_id) \/
                      (ids.tmdb_id # NULL /\ r.tmdb_id = ids.tmdb_id))}

\* A candidate: the ids attached to it, the ids its lazy fields would resolve
\* to (only for an id that is not attached), its quality if any.
Candidates ==
    {c \in [imdb_id : OptImdb, tmdb_id : OptTmdb, lz_imdb : OptImdb, lz_tmdb : OptTmdb,
            quality : Qualities \cup {NULL}] :
        /\ c.imdb_id # NULL => c.lz_imdb = NULL
        /\ c.tmdb_id # NULL => c.lz_tmdb = NULL}

Match ==
    \E c \in Candidates :
      LET ids == MatchIds(c.imdb_id, c.tmdb_id, c.lz_imdb, c.lz_tmdb)
          call == [Idle EXCEPT !.op = "match", !.imdb_id = c.imdb_id, !.tmdb_id = c.tmdb_id,
                               !.lz_imdb = c.lz_imdb, !.lz_tmdb = c.lz_tmdb,
                               !.quality = c.quality, !.lookup = ids.lazy]
      IN /\ UNCHANGED <<store, nextId, sess>>
         /\ IF ids.imdb_id = NULL /\ ids.tmdb_id = NULL
            THEN last' = [call EXCEPT !.result = "unidentified"]
            ELSE \E movie \in First(MatchRows(store, ids)) :
                 IF movie # NoItem /\ movie.quality \notin Reqs
                 THEN last' = [call EXCEPT !.result = "ValueError", !.id = movie.id]
                 ELSE IF movie # NoItem /\ Allows(movie.quality, CandQuality(c.quality))
                 THEN last' = [call EXCEPT !.result = "matched", !.id = movie.id]
                 ELSE last' = [call EXCEPT !.result = "nomatch"]

\* ---------------------------------------------------------------- MovieQueueListAPI.get
\* The state of the list resource: the list queue_get returned (entries named
\* by their position in it), the request and the response.
NoListing(movie_queue) ==
    [movie_queue |-> movie_queue, page |-> 0, max_results |-> 0, status |-> "none",
     movies |-> <<>>, pages |-> 0]

CeilFloor(count, max_results) == count \div max_results

\* int(ceil(count / float(max_results))) for max_results >= 1.
Ceil(count, max_results) ==
    IF count % max_results = 0 THEN count \div max_results ELSE count \div max_results + 1

\* The response of get to page and max_results over movie_queue.
get(movie_queue, page, max_results) ==
    LET count == Len(movie_queue)
        pages == Ceil(count, max_results)
        start == (page - 1) * max_results
        finish == IF start + max_results > count THEN count ELSE start + max_results
        request == [NoListing(movie_queue) EXCEPT !.page = page, !.max_results = max_results]
    IN IF count = 0
       THEN [request EXCEPT !.status = "no movies found in queue"]
       ELSE IF page > pages
       THEN [request EXCEPT !.status = "404 page does not exist"]
       ELSE [request EXCEPT !.status = "200", !.pages = pages,
                            !.movies = [i \in 1..(finish - start) |-> movie_queue[start + i]]]

Get ==
    \E page \in 1..MaxPage, max_results \in 1..MaxSize :
      listing' = get(listing.movie_queue, page, max_results)

\* ---------------------------------------------------------------- on_task_output
\* The loop of on_task_output: the configured action, the accepted entries it
\* has not reached yet, and whether it failed the entry it handled last.
IdleBatch == [state |-> "idle", action |-> "add", left |-> 0, failed |-> FALSE]

BatchActions == {"add", "remove", "forget"}

\* The requirement of an add: the entries carry no quality_req and no quality,
\* the config no quality, so it is Requirements('any').
ConfigQuality == "any"

\* The outcomes of a store call that are a QueueError.
QueueErrors ==
    {"AlreadyQueued", "AlreadyDownloaded", "LookupIncomplete", "NotFound",
     "AmbiguousSelector", "NotDownloaded"}

\* The accepted entries: attached ids, the ids a lazy lookup would give, and
\* the movie name already on the entry.
OutputCandidates ==
    {c \in [imdb_id : OptImdb, tmdb_id : OptTmdb, lz_imdb : OptImdb, lz_tmdb : OptTmdb,
            title : OptTitle] :
        /\ c.imdb_id # NULL => c.lz_imdb = NULL
        /\ c.tmdb_id # NULL => c.lz_tmdb = NULL}

\* kwargs of on_task_output: the attached ids when there is one, else both
\* lazily looked up ids.
OutputIds(c) ==
    IF c.imdb_id # NULL \/ c.tmdb_id # NULL
    THEN [imdb_id |-> c.imdb_id, tmdb_id |-> c.tmdb_id]
    ELSE [imdb_id |-> c.lz_imdb, tmdb_id |-> c.lz_tmdb]

\* The loop moves to the next accepted entry, the handled one failed or not.
NextEntry(b, failed) ==
    [b EXCEPT !.left = @ - 1, !.failed = failed,
              !.state = IF b.left = 1 THEN "done" ELSE "running"]

AfterCallFailAll(b, result, errno) ==
    IF result = "ok" THEN NextEntry(b, FALSE)
    ELSE IF result \in QueueErrors THEN NextEntry(b, TRUE)
    ELSE [b EXCEPT !.state = "aborted", !.failed = FALSE]

\* The end of one pass of the loop body: except QueueError fails the entry
\* unless errno is 1; any other exception leaves the loop.
AfterCall(b, result, errno) ==
    IF result = "ok" THEN NextEntry(b, FALSE)
    ELSE IF result \in QueueErrors THEN NextEntry(b, errno # 1)
    ELSE [b EXCEPT !.state = "aborted", !.failed = FALSE]

\* A task with 1..MaxBatch accepted entries reaches its output phase.
BatchStart ==
    /\ batch.state # "running"
    /\ \E action \in BatchActions, n \in 1..MaxBatch :
         batch' = [state |-> "running", action |-> action, left |-> n, failed |-> FALSE]
    /\ last' = Idle
    /\ UNCHANGED <<store, nextId, sess, listing>>

\* One pass of the loop over task.accepted.
BatchStep ==
    /\ batch.state = "running"
    /\ UNCHANGED listing
    /\ \E c \in OutputCandidates :
         LET kwargs == OutputIds(c)
         IN IF kwargs.imdb_id = NULL /\ kwargs.tmdb_id = NULL
            THEN /\ last' = [Idle EXCEPT !.op = "skip", !.title = c.title,
                                         !.lz_imdb = c.lz_imdb, !.lz_tmdb = c.lz_tmdb,
                                         !.lookup = TRUE]
                 /\ batch' = NextEntry(batch, FALSE)
                 /\ UNCHANGED <<store, nextId, sess>>
            ELSE /\ \/ /\ batch.action = "add"
                       /\ \E lk \in AddLookups(c.title, kwargs.imdb_id, kwargs.tmdb_id) :
                            queue_add(c.title, kwargs.imdb_id, kwargs.tmdb_id,
                                      ConfigQuality, lk)
                    \/ /\ batch.action = "remove"
                       /\ queue_del(c.title, kwargs.imdb_id, kwargs.tmdb_id)
                    \/ /\ batch.action = "forget"
                       /\ queue_forget(c.title, kwargs.imdb_id, kwargs.tmdb_id)
                 /\ batch' = AfterCall(batch, last'.result, last'.errno)

\* ---------------------------------------------------------------- concurrent adds
\* Two callers of queue_add, each in its own session: the "already queued"
\* query runs against the committed rows, the insert is flushed at commit.
Callers == {1, 2}
IdleSess == [pc |-> "idle", title |-> NULL, imdb_id |-> NULL, tmdb_id |-> NULL,
             quality |-> NULL]

AddCheck(p) ==
    /\ sess[p].pc = "idle"
    /\ \E title \in OptTitle, imdb_id \in OptImdb, tmdb_id \in OptTmdb, quality \in AddQualities :
       \E lk \in AddLookups(title, imdb_id, tmdb_id) :
         LET q == IF quality = NULL THEN "any" ELSE quality
             r == Resolve(title, imdb_id, tmdb_id, lk)
             call == [Idle EXCEPT !.op = "add", !.title = title, !.imdb_id = imdb_id,
                                  !.tmdb_id = tmdb_id,
                                  !.lookup = NeedsLookup(title, imdb_id, tmdb_id)]
         IN IF r.err # NULL
            THEN /\ last' = [call EXCEPT !.result = r.err]
                 /\ UNCHANGED <<store, nextId, sess>>
            ELSE \E item \in First(AddConflicts(store, r.imdb_id, r.tmdb_id)) :
                 IF item = NoItem
                 THEN /\ sess' = [sess EXCEPT ![p] = [pc |-> "checked", title |-> r.title,
                                                     imdb_id |-> r.imdb_id,
                                                     tmdb_id |-> r.tmdb_id, quality |-> q]]
                      /\ last' = [call EXCEPT !.result = "checked"]
                      /\ UNCHANGED <<store, nextId>>
                 ELSE /\ last' = [call EXCEPT !.result = AddConflictError(item).message,
                                              !.errno = AddConflictError(item).errno,
                                              !.id = item.id]
                      /\ UNCHANGED <<store, nextId, sess>>

AddCommit(p) ==
    /\ sess[p].pc = "checked"
    /\ nextId <= MaxId
    /\ store' = Append(store, QueuedMovie(nextId, sess[p].title, sess[p].imdb_id,
                                          sess[p].tmdb_id, sess[p].quality))
    /\ nextId' = nextId + 1
    /\ sess' = [sess EXCEPT ![p] = IdleSess]
    /\ last' = [Idle EXCEPT !.op = "add", !.result = "ok", !.ret_title = sess[p].title,
                            !.ret_imdb = sess[p].imdb_id, !.ret_tmdb = sess[p].tmdb_id,
                            !.id = nextId]

\* ---------------------------------------------------------------- specification
\* An empty movie_queue table, no call made yet.
InitStore ==
    /\ store = <<>>
    /\ nextId = 1
    /\ last = Idle
    /\ sess = [p \in Callers |-> IdleSess]

Init ==
    /\ InitStore
    /\ listing = NoListing(<<>>)
    /\ batch = IdleBatch

\* The calls of the store functions with well-formed arguments, one at a time.
Next ==
    \/ Add /\ UNCHANGED <<listing, batch>>
    \/ Del /\ UNCHANGED <<listing, batch>>
    \/ Forget /\ UNCHANGED <<listing, batch>>
    \/ Edit /\ UNCHANGED <<listing, batch>>
    \/ Satisfy /\ UNCHANGED <<listing, batch>>
    \/ Match /\ UNCHANGED <<listing, batch>>

Spec == Init /\ [][Next]_vars

\* The adds of two callers, their steps interleaved.
ConcNext ==
    \/ \E p \in Callers : AddCheck(p) /\ UNCHANGED <<listing, batch>>
    \/ \E p \in Callers : AddCommit(p) /\ UNCHANGED <<listing, batch>>

SpecConc == Init /\ [][ConcNext]_vars

\* The queue as its administration calls see it: queue_get, and queue_edit with
\* any string for the quality.
AdminNext ==
    \/ Add /\ UNCHANGED <<listing, batch>>
    \/ Satisfy /\ UNCHANGED <<listing, batch>>
    \/ Edit /\ UNCHANGED <<listing, batch>>
    \/ EditMalformed /\ UNCHANGED <<listing, batch>>
    \/ Match /\ UNCHANGED <<listing, batch>>
    \/ List /\ UNCHANGED <<listing, batch>>

SpecAdmin == Init /\ [][AdminNext]_vars

\* MovieQueueListAPI.get applied to listings of every length up to MaxCount.
InitList ==
    /\ InitStore
    /\ batch = IdleBatch
    /\ \E count \in 0..MaxCount : listing = NoListing([i \in 1..count |-> i])

ListNext == Get /\ UNCHANGED <<store, nextId, last, sess, batch>>

SpecList == InitList /\ [][ListNext]_vars

\* The output phase of tasks, one batch of accepted candidates after another,
\* with downloads satisfying entries between the batches.
BatchNext ==
    \/ BatchStart
    \/ BatchStep
    \/ batch.state # "running" /\ Satisfy /\ UNCHANGED <<listing, batch>>

SpecBatch == Init /\ [][BatchNext]_vars

\* ================================================================ properties
Wanted(r) == r.downloaded = NULL
HasRow(s, id) == \E r \in Rows(s) : r.id = id
RowOf(s, id) == CHOOSE r \in Rows(s) : r.id = id

\* The rows a selector designates: those equal to it in the first field given,
\* in the order external_id_a, external_id_b, title.
NonEmptySelector(title, imdb_id, tmdb_id) == imdb_id # NULL \/ tmdb_id # NULL \/ title # NULL
Designated(s, title, imdb_id, tmdb_id) ==
    CASE imdb_id # NULL -> {r \in Rows(s) : r.imdb_id = imdb_id}
      [] imdb_id = NULL /\ tmdb_id # NULL -> {r \in Rows(s) : r.tmdb_id = tmdb_id}
      [] OTHER -> {r \in Rows(s) : r.title = title}

\* C1: no two entries with downloaded = null share a non-null imdb_id, and no
\* two share a non-null tmdb_id, after any sequence of operations.
C1_Dedup ==
    \A i, j \in 1..Len(store) :
      (i # j /\ Wanted(store[i]) /\ Wanted(store[j])) =>
        /\ store[i].imdb_id # NULL => store[i].imdb_id # store[j].imdb_id
        /\ store[i].tmdb_id # NULL => store[i].tmdb_id # store[j].tmdb_id

\* Two wanted entries, one of them back from satisfied by the forget just done.
C1_Witness ==
    /\ last.op = "forget" /\ last.result = "ok"
    /\ Len(store) = 2
    /\ \A i \in 1..2 : Wanted(store[i])

\* C2: an add whose imdb_id or tmdb_id equals that of a wanted entry fails with
\* AlreadyQueued and leaves the rows as they were.
C2_ConflictAlwaysAlreadyQueued ==
    [][(/\ last'.op = "add"
        /\ \E r \in Rows(store) :
             /\ Wanted(r)
             /\ \/ (last'.imdb_id # NULL /\ r.imdb_id = last'.imdb_id)
                \/ (last'.tmdb_id # NULL /\ r.tmdb_id = last'.tmdb_id))
       => (last'.result = "AlreadyQueued" /\ store' = store)]_vars

\* C3: whatever the interleaving of two callers' adds, no two wanted entries
\* end up sharing an id (at most one of two adds of the same id commits).
C3_OneWriterPerIdentity ==
    \A r1, r2 \in Rows(store) :
      (r1.id # r2.id /\ Wanted(r1) /\ Wanted(r2)) =>
        ~ \/ (r1.imdb_id # NULL /\ r1.imdb_id = r2.imdb_id)
          \/ (r1.tmdb_id # NULL /\ r1.tmdb_id = r2.tmdb_id)

\* C4: an entry returned by match is wanted, shares the candidate's imdb_id or
\* tmdb_id (attached or looked up), and its requirement allows the candidate's
\* quality, an absent quality counting as the default one.
C4_MatchSound ==
    (last.op = "match" /\ last.result = "matched") =>
      /\ HasRow(store, last.id)
      /\ LET r == RowOf(store, last.id)
             q == IF last.quality = NULL THEN "unknown" ELSE last.quality
         IN /\ r.downloaded = NULL
            /\ \/ (r.imdb_id # NULL /\ r.imdb_id \in {last.imdb_id, last.lz_imdb})
               \/ (r.tmdb_id # NULL /\ r.tmdb_id \in {last.tmdb_id, last.lz_tmdb})
            /\ (r.quality = "any" \/ Rank[q] >= Rank["720p"])

\* A match through the quality gate of a "720p+" entry, a satisfied entry
\* being in the store as well.
C4_Witness ==
    /\ last.op = "match" /\ last.result = "matched"
    /\ HasRow(store, last.id)
    /\ RowOf(store, last.id).quality = "720p+"
    /\ \E r \in Rows(store) : r.downloaded # NULL

\* C5: for a candidate with ids attached, if some wanted entry has the
\* candidate's imdb_id or its tmdb_id and allows the candidate's quality, match
\* succeeds, also when another wanted entry matching by the other id rejects it.
C5_OrSemantics ==
    (/\ last.op = "match"
     /\ last.lz_imdb = NULL /\ last.lz_tmdb = NULL
     /\ \E r \in Rows(store) :
          /\ Wanted(r)
          /\ \/ (last.imdb_id # NULL /\ r.imdb_id = last.imdb_id)
             \/ (last.tmdb_id # NULL /\ r.tmdb_id = last.tmdb_id)
          /\ Allows(r.quality, CandQuality(last.quality)))
    => last.result = "matched"

\* C6: a successful forget clears downloaded and the provenance fields of the
\* entry and leaves its id, title, external ids and quality as they were.
C6_ForgetClearsProvenance ==
    [][(last'.op = "forget" /\ last'.result = "ok") =>
         /\ HasRow(store, last'.id) /\ HasRow(store', last'.id)
         /\ LET old == RowOf(store, last'.id)
                new == RowOf(store', last'.id)
            IN /\ new.downloaded = NULL
               /\ new.entry_title = NULL /\ new.entry_url = NULL
               /\ new.entry_original_url = NULL
               /\ new.title = old.title /\ new.imdb_id = old.imdb_id
               /\ new.tmdb_id = old.tmdb_id /\ new.quality = old.quality]_vars

\* C7: forget of a wanted entry fails with NotDownloaded, forget with a selector
\* designating no entry fails with NotFound, and both leave the rows unchanged.
C7_ForgetErrors ==
    [][(last'.op = "forget" /\ NonEmptySelector(last'.title, last'.imdb_id, last'.tmdb_id)) =>
         LET found == Designated(store, last'.title, last'.imdb_id, last'.tmdb_id)
         IN /\ found = {} => (last'.result = "NotFound" /\ store' = store)
            /\ (\E r \in found : found = {r} /\ r.downloaded = NULL)
                 => (last'.result = "NotDownloaded" /\ store' = store)]_vars

\* A forget refused on a wanted entry.
C7_Witness ==
    /\ last.op = "forget" /\ last.result = "NotDownloaded"
    /\ HasRow(store, last.id)
    /\ RowOf(store, last.id).downloaded = NULL

\* C8: remove deletes exactly the one entry its selector designates and returns
\* its title; it fails with NotFound when none is designated and with
\* AmbiguousSelector when several are, deleting nothing.
C8_Remove ==
    [][(last'.op = "del" /\ NonEmptySelector(last'.title, last'.imdb_id, last'.tmdb_id)) =>
         LET found == Designated(store, last'.title, last'.imdb_id, last'.tmdb_id)
         IN /\ found = {} => (last'.result = "NotFound" /\ store' = store)
            /\ Cardinality(found) > 1 => (last'.result = "AmbiguousSelector" /\ store' = store)
            /\ \A r \in found : found = {r} =>
                 /\ last'.result = "ok"
                 /\ last'.ret_title = r.title
                 /\ store' = SelectSeq(store, LAMBDA x : x # r)]_vars

\* A satisfied entry removed by title while another entry stays.
C8_Witness ==
    /\ last.op = "del" /\ last.result = "ok"
    /\ last.imdb_id = NULL /\ last.tmdb_id = NULL /\ last.title # NULL
    /\ Len(store) = 1
    /\ ~HasRow(store, last.id)

\* C9: an add that went through the lookup keeps the ids the caller gave, in
\* the created entry and in the returned identity, and leaves a given title
\* non-empty.
C9_SuppliedFieldsKept ==
    (last.op = "add" /\ last.result = "ok" /\ last.lookup /\ HasRow(store, last.id)) =>
      LET r == RowOf(store, last.id)
      IN /\ last.imdb_id # NULL => (r.imdb_id = last.imdb_id /\ last.ret_imdb = last.imdb_id)
         /\ last.tmdb_id # NULL => (r.tmdb_id = last.tmdb_id /\ last.ret_tmdb = last.tmdb_id)
         /\ last.title # NULL => (r.title # NULL /\ last.ret_title # NULL)

\* C10: every entry has a title, an imdb_id or a tmdb_id, in every state.
C10_IdentityMinimum ==
    \A r \in Rows(store) : r.title # NULL \/ r.imdb_id # NULL \/ r.tmdb_id # NULL

\* An add by title alone whose lookup resolved nothing has just failed, the
\* store holding an entry.
C10_Witness ==
    /\ last.op = "add" /\ last.result = "LookupIncomplete"
    /\ last.title # NULL /\ last.imdb_id = NULL /\ last.tmdb_id = NULL
    /\ Len(store) >= 1

\* C11: edit_quality selected by imdb_id or by tmdb_id overwrites the quality
\* of the entry carrying that id and of no other, leaving its identity and
\* its downloaded state alone; with no entry carrying the id it fails with
\* NotFound and changes nothing.
C11_EditBySelector ==
    [][(last'.op = "edit" /\ (last'.imdb_id # NULL \/ last'.tmdb_id # NULL)) =>
         LET found == Designated(store, NULL, last'.imdb_id, last'.tmdb_id)
         IN /\ found = {} => (last'.result = "NotFound" /\ store' = store)
            /\ \A r \in found : found = {r} =>
                 /\ last'.result = "ok"
                 /\ store' = Replace(store, [r EXCEPT !.quality = last'.quality])]_vars

\* C12: a conflicting add reports AlreadyDownloaded exactly when the entry its
\* query returned is downloaded and AlreadyQueued exactly when it is not, two
\* different errors for the caller.
C12_ConflictKind ==
    (last.op = "add" /\ last.result \in {"AlreadyQueued", "AlreadyDownloaded"}) =>
      /\ HasRow(store, last.id)
      /\ last.result = "AlreadyDownloaded" <=> RowOf(store, last.id).downloaded # NULL
      /\ last.result = "AlreadyQueued" <=> RowOf(store, last.id).downloaded = NULL

\* An add refused on a downloaded entry while a wanted entry is queued too.
C12_Witness ==
    /\ last.op = "add" /\ last.result = "AlreadyDownloaded"
    /\ \E r \in Rows(store) : r.downloaded = NULL

\* C15: add, remove, forget and edit_quality either succeed or leave the rows
\* exactly as they were.
C15_SucceedOrNoEffect ==
    [][(last'.op \in {"add", "del", "forget", "edit"} /\ last'.result # "ok")
         => store' = store]_vars

\* A refused add with rows in the store.
C15_Witness ==
    /\ last.op = "add" /\ last.result = "AlreadyQueued"
    /\ Len(store) = 2

\* C17: downloaded changes only by satisfy (unset to set) and forget (set to
\* unset); a created entry starts with downloaded unset.
C17_Lifecycle ==
    [][store' # store => \A r2 \in Rows(store') :
         /\ ~HasRow(store, r2.id) => (last'.op = "add" /\ r2.downloaded = NULL)
         /\ HasRow(store, r2.id) =>
              LET r1 == RowOf(store, r2.id)
              IN /\ (r1.downloaded = NULL /\ r2.downloaded # NULL) => last'.op = "satisfy"
                 /\ (r1.downloaded # NULL /\ r2.downloaded = NULL) => last'.op = "forget"]_vars

\* An entry removed while a downloaded entry stays in the store.
C17_Witness ==
    /\ last.op = "del" /\ last.result = "ok"
    /\ Len(store) = 1
    /\ store[1].downloaded # NULL

\* C18: the lookup is triggered only when no id is attached to the candidate,
\* and a candidate is unidentifiable only after the lookup was tried and gave
\* neither id.
C18_TwoPhase ==
    last.op = "match" =>
      /\ last.lookup <=> (last.imdb_id = NULL /\ last.tmdb_id = NULL)
      /\ last.result = "unidentified" =>
           (last.lookup /\ last.lz_imdb = NULL /\ last.lz_tmdb = NULL)
      /\ (last.lookup /\ (last.lz_imdb # NULL \/ last.lz_tmdb # NULL)) =>
           last.result # "unidentified"

\* A candidate without attached ids matched through the looked up tmdb_id.
C18_Witness ==
    /\ last.op = "match" /\ last.result = "matched"
    /\ last.lookup /\ last.lz_imdb = NULL /\ last.lz_tmdb # NULL

\* C13: list(downloaded=false) returns exactly the entries with downloaded
\* unset and list(downloaded=true) exactly those with downloaded set, each
\* list in insertion order.
C13_ListPartitionInOrder ==
    last.op = "list" =>
      /\ Rows(last.ret) = {r \in Rows(store) : (r.downloaded # NULL) <=> last.downloaded}
      /\ Len(last.ret) = Cardinality(Rows(last.ret))
      /\ \A i, j \in 1..Len(last.ret) : i < j => last.ret[i].id < last.ret[j].id

\* C16: every stored quality is a well-formed requirement spec.
C16_StoredQualityWellFormed ==
    \A r \in Rows(store) : r.quality \in Reqs

\* The number of pages a listing of count entries needs with s entries a
\* page: the least n with n * s >= count.
PagesNeeded(count, s) ==
    CHOOSE n \in 0..count : n * s >= count /\ \A m \in 0..count : m * s >= count => n <= m

\* The entries of xs at the positions (p-1)*s .. min(p*s, count)-1, counted from 0.
PageOf(xs, p, s) ==
    SubSeq(xs, (p - 1) * s + 1, IF p * s < Len(xs) THEN p * s ELSE Len(xs))

\* C14: the total page count is ceil(count / s), a page within 1..total holds
\* exactly the entries at its positions, and any page beyond the last is
\* answered by the out-of-range error.
C14_Pagination ==
    listing.status # "none" =>
      LET total == PagesNeeded(Len(listing.movie_queue), listing.max_results)
      IN /\ listing.page <= total =>
              /\ listing.status = "200"
              /\ listing.pages = total
              /\ listing.movies = PageOf(listing.movie_queue, listing.page, listing.max_results)
         /\ listing.page > total => listing.status = "404 page does not exist"

\* C14, amended: as C14 for a listing of at least one entry; a listing of no
\* entry is answered "no movies found in queue" whatever the page.
C14_PaginationNonEmpty ==
    listing.status # "none" =>
      LET total == PagesNeeded(Len(listing.movie_queue), listing.max_results)
      IN /\ (Len(listing.movie_queue) > 0 /\ listing.page <= total) =>
              /\ listing.status = "200"
              /\ listing.pages = total
              /\ listing.movies = PageOf(listing.movie_queue, listing.page, listing.max_results)
         /\ (Len(listing.movie_queue) > 0 /\ listing.page > total) =>
              listing.status = "404 page does not exist"
         /\ Len(listing.movie_queue) = 0 =>
              (listing.status = "no movies found in queue" /\ listing.movies = <<>>)

\* Page 4 of 5 entries, 2 a page, is out of range.
C14_Witness ==
    /\ Len(listing.movie_queue) = 5
    /\ listing.max_results = 2
    /\ listing.page = 4
    /\ listing.status = "404 page does not exist"

\* C19: no error of the store call made for one candidate ends the loop
\* before the candidates after it are handled.
C19_BatchNeverAborted ==
    batch.state # "aborted"

\* C20: a store error fails the candidate unless it is the "already queued"
\* conflict.
C20_FailedUnlessAlreadyQueued ==
    [][(batch.state = "running" /\ last'.result \in QueueErrors) =>
         (batch'.failed <=> last'.result # "AlreadyQueued")]_vars

\* C20, amended: a store error fails the candidate unless it is one of the two
\* add conflicts, "already queued" and "already downloaded".
C20_FailedUnlessAddConflict ==
    [][(batch.state = "running" /\ last'.result \in QueueErrors) =>
         (batch'.failed <=> last'.result \notin {"AlreadyQueued", "AlreadyDownloaded"})]_vars

\* The last add of a batch refused on a downloaded entry, its candidate not
\* failed.
C20_Witness ==
    /\ batch.action = "add"
    /\ batch.state = "done"
    /\ last.op = "add" /\ last.result = "AlreadyDownloaded"
    /\ ~batch.failed

\* C21: every failure of add, remove, forget and edit_quality is one of the
\* queue errors of the taxonomy.
C21_FailuresAreQueueErrors ==
    (last.op \in {"add", "del", "forget", "edit"} /\ last.result # "ok") =>
      last.result \in QueueErrors

\* C22: a remove or a forget given no imdb_id, no tmdb_id and no title leaves
\* every entry as it was.
C22_EmptySelectorNoEffect ==
    [][(/\ last'.op \in {"del", "forget"}
        /\ last'.imdb_id = NULL /\ last'.tmdb_id = NULL /\ last'.title = NULL)
         => store' = store]_vars

\* C23: no two entries, wanted or downloaded, share a non-null imdb_id or a
\* non-null tmdb_id, and a remove, forget or edit_quality selecting by such an
\* id never finds more than one entry.
C23_IdsUniqueAllStates ==
    /\ \A i, j \in 1..Len(store) :
         i # j =>
           /\ store[i].imdb_id # NULL => store[i].imdb_id # store[j].imdb_id
           /\ store[i].tmdb_id # NULL => store[i].tmdb_id # store[j].tmdb_id
    /\ (last.op \in {"del", "forget"} /\ (last.imdb_id # NULL \/ last.tmdb_id # NULL)) =>
         last.result \notin {"AmbiguousSelector", "MultipleResultsFound"}
    /\ (last.op = "edit" /\ last.imdb_id # NULL) => last.result # "MultipleResultsFound"

\* A downloaded entry found by its id among two entries and made wanted again.
C23_Witness ==
    /\ last.op = "forget" /\ last.result = "ok"
    /\ last.imdb_id # NULL \/ last.tmdb_id # NULL
    /\ Len(store) = 2

====
